---- MODULE Spec2Model ----
(***************************************************************************)
(* A model of rain_analyzer.py: the leaf-class resolver, the parameter     *)
(* synthesizer, the dependency filter and the catalog builder.             *)
(***************************************************************************)
EXTENDS Integers, Sequences, FiniteSets, TLC

VARIABLES
  \* get_simple_node_subclasses
  base, bases, modules, todoModules, curModule, members,
  parent_classes, child_classes, rpc, leaves,
  \* extract_params_info and get_parameters
  signature, doc_parameters, params_desc, params_type, parameters, ppc,
  \* get_dependencies
  d_libs, d_lines, dependencies, dpc,
  \* get_simple_nodes_info
  node_subclasses, simple_nodes, gpc,
  \* analyze and get_analyzed_nodes
  a_leaves, import_ok, manifest_ok, open_ok, old_file, file, a_deps, a_order,
  a_nodes, returned, apc, loaded, lpc, read_after

rvars == <<base, bases, modules, todoModules, curModule, members,
           parent_classes, child_classes, rpc, leaves>>
pvars == <<signature, doc_parameters, params_desc, params_type, parameters, ppc>>

dvars == <<d_libs, d_lines, dependencies, dpc>>
gvars == <<node_subclasses, simple_nodes, gpc>>
\* get_analyzed_nodes: what the last call returned, how it ended, and the
\* point of the analyze run it was made at.
lvars == <<loaded, lpc, read_after>>
avars == <<a_leaves, import_ok, manifest_ok, open_ok, old_file, file, a_deps,
           a_order, a_nodes, returned, apc, lvars>>

vars == <<rvars, pvars, dvars, gvars, avars>>

\* The variables of a function that a specification does not run.
ResolveIdle ==
  /\ base = <<>> /\ bases = <<>> /\ modules = <<>> /\ todoModules = {}
  /\ curModule = "none" /\ members = {} /\ parent_classes = {} /\ child_classes = {}
  /\ rpc = "idle" /\ leaves = {}

ParamsIdle ==
  /\ signature = <<>> /\ doc_parameters = <<>> /\ params_desc = <<>>
  /\ params_type = <<>> /\ parameters = <<>> /\ ppc = "idle"

DepsIdle ==
  /\ d_libs = {} /\ d_lines = <<>> /\ dependencies = <<>> /\ dpc = "idle"

NodesInfoIdle ==
  /\ node_subclasses = {} /\ simple_nodes = <<>> /\ gpc = "idle"

AnalyzeIdle ==
  /\ a_leaves = {} /\ import_ok = TRUE /\ manifest_ok = TRUE /\ open_ok = TRUE
  /\ old_file = <<>> /\ file = <<>> /\ a_deps = <<>> /\ a_order = <<>>
  /\ a_nodes = <<>> /\ returned = <<>> /\ apc = "idle"
  /\ loaded = <<>> /\ lpc = "idle" /\ read_after = "idle"

(***************************************************************************)
(* Python values. A str is the sequence of its characters.                 *)
(***************************************************************************)

None == [kind |-> "None"]
PyStr(s) == [kind |-> "str", v |-> s]
PyInt(n) == [kind |-> "int", v |-> n]
PyBool(b) == [kind |-> "bool", v |-> b]
PyList(q) == [kind |-> "list", v |-> q]
PyTuple(q) == [kind |-> "tuple", v |-> q]
PyDict(f) == [kind |-> "dict", v |-> f]
\* inspect.Signature.empty: the parameter declares no default.
SignatureEmpty == [kind |-> "empty"]

\* bool(v) for the values tested in this file: None and str.
Truthy(v) == IF v.kind = "None" THEN FALSE
             ELSE IF v.kind = "str" THEN v.v # <<>>
             ELSE TRUE

\* dict.get(k): the value, or None for a missing key.
DictGet(d, k) == IF k \in DOMAIN d THEN d[k] ELSE None

\* d[k] = v
DictSet(d, k, v) == [x \in DOMAIN d \cup {k} |-> IF x = k THEN v ELSE d[x]]

EmptyDict == [x \in {} |-> None]

\* sep occurs in s at position i.
OccursAt(s, sep, i) ==
  /\ i >= 1
  /\ i + Len(sep) - 1 <= Len(s)
  /\ \A k \in 1..Len(sep) : s[i + k - 1] = sep[k]

\* sep in s
Contains(s, sep) == \E i \in 1..(Len(s) + 1) : OccursAt(s, sep, i)

\* s.split(sep)[0]: s up to the first occurrence of sep, s itself without one.
SplitFirst(s, sep) ==
  IF Contains(s, sep)
  THEN LET i == CHOOSE j \in 1..(Len(s) + 1) :
                  /\ OccursAt(s, sep, j)
                  /\ \A k \in 1..(j - 1) : ~OccursAt(s, sep, k)
       IN SubSeq(s, 1, i - 1)
  ELSE s

\* The characters up to U+00FF that str.strip() removes, those for which
\* str.isspace() holds: the space, \t, \n, \v, \f, \r, the separators \x1c to
\* \x1f, the next line U+0085 and the no-break space U+00A0.
Whitespace ==
  {" ", "\t", "\n", "", "\f", "\r", "", "", "", "",
   "", " "}

RECURSIVE LStrip(_)
LStrip(s) == IF s # <<>> /\ Head(s) \in Whitespace THEN LStrip(Tail(s)) ELSE s

RECURSIVE RStrip(_)
RStrip(s) == IF s # <<>> /\ s[Len(s)] \in Whitespace
             THEN RStrip(SubSeq(s, 1, Len(s) - 1)) ELSE s

\* s.strip()
Strip(s) == RStrip(LStrip(s))

\* sep.join(parts)
RECURSIVE Join(_, _)
Join(sep, parts) ==
  IF parts = <<>> THEN <<>>
  ELSE IF Len(parts) = 1 THEN parts[1]
  ELSE parts[1] \o sep \o Join(sep, Tail(parts))

(***************************************************************************)
(* Class Hierarchy Resolver: get_simple_node_subclasses                    *)
(***************************************************************************)

\* Classes are numbered: 0 is `object`, 1 is SimpleNode, 2..MaxClass are the
\* classes of the scanned library.
MaxClass == 4
\* The largest number of classes one module exposes.
MaxMembers == 2

ObjectClass == 0
SimpleNode == 1
Classes == ObjectClass..MaxClass
LibraryClasses == 2..MaxClass
\* The classes a module can expose: SimpleNode (imported by the modules) and
\* the library's own classes.
VisibleClasses == SimpleNode..MaxClass

\* The module names find_modules returns, in a reference order.
ModuleOrder == <<"m1", "m2">>
ModuleNames == {ModuleOrder[i] : i \in 1..Len(ModuleOrder)}

\* cls.__base__ for every class. A class is defined after its bases, so
\* numbering the classes in definition order makes a base a lower number.
BaseFunctions ==
  { b \in [Classes -> Classes] :
      /\ b[ObjectClass] = ObjectClass
      /\ b[SimpleNode] = ObjectClass
      /\ \A c \in LibraryClasses : b[c] < c }

\* cls.__bases__ for every class, as a set: object has none; a class of mixed
\* lists SimpleNode after its first base, class C(Other, SimpleNode), and every
\* other class has the one base b gives it. For classes of the same layout
\* __base__ is the first of __bases__.
BasesOf(b, mixed) ==
  [c \in Classes |->
     IF c = ObjectClass THEN {}
     ELSE IF c \in mixed THEN {b[c], SimpleNode}
     ELSE {b[c]}]

\* issubclass(cls, SimpleNode): SimpleNode is cls or is reached from cls along
\* the bases, all of them and not __base__ alone.
RECURSIVE IsSubclassOfSimpleNode(_, _)
IsSubclassOfSimpleNode(bs, cls) ==
  \/ cls = SimpleNode
  \/ \E p \in bs[cls] : IsSubclassOfSimpleNode(bs, p)

\* The hierarchies: __base__ and __bases__ of every class. The classes with a
\* second base are the ones that join the node hierarchy by listing SimpleNode
\* after a first base that lies outside of it. A class none of whose bases
\* leads to SimpleNode is a class outside the node hierarchy.
Hierarchies ==
  { h \in { [base |-> b, bases |-> BasesOf(b, mixed)] :
              b \in BaseFunctions, mixed \in SUBSET LibraryClasses } :
      \A c \in LibraryClasses :
        Cardinality(h.bases[c]) > 1 =>
          /\ h.base[c] # ObjectClass
          /\ ~IsSubclassOfSimpleNode(h.bases, h.base[c]) }

\* The inner loop's body with the final membership test dropped: the class is
\* added to the children whether or not it is a known parent.
VisitAlwaysAdd(b, bs, ws, cls) ==
  IF IsSubclassOfSimpleNode(bs, cls)
  THEN [parents  |-> ws.parents \cup {b[cls]},
        children |-> (ws.children \ {b[cls]}) \cup {cls}]
  ELSE ws

\* The inner loop's body without the removal of the parent from the children.
VisitNoRemove(b, bs, ws, cls) ==
  IF IsSubclassOfSimpleNode(bs, cls)
  THEN [parents  |-> ws.parents \cup {b[cls]},
        children |-> IF cls \notin ws.parents \cup {b[cls]}
                     THEN ws.children \cup {cls} ELSE ws.children]
  ELSE ws

\* The inner loop's body with parent_classes.add(parent) indented under the
\* `if parent in child_classes`.
VisitAddParentIfChild(b, bs, ws, cls) ==
  IF IsSubclassOfSimpleNode(bs, cls)
  THEN LET parent == b[cls]
           wasChild == parent \in ws.children
           parents1 == IF wasChild THEN ws.parents \cup {parent} ELSE ws.parents
           children1 == IF wasChild THEN ws.children \ {parent} ELSE ws.children
       IN [parents  |-> parents1,
           children |-> IF cls \notin parents1
                        THEN children1 \cup {cls} ELSE children1]
  ELSE ws

\* The body of the inner loop (lines 109-115) on the working sets ws.
Visit(b, bs, ws, cls) ==
  IF IsSubclassOfSimpleNode(bs, cls)
  THEN LET parent == b[cls]
           children1 == IF parent \in ws.children
                        THEN ws.children \ {parent} ELSE ws.children
           parents1 == ws.parents \cup {parent}
       IN [parents  |-> parents1,
           children |-> IF cls \notin parents1
                        THEN children1 \cup {cls} ELSE children1]
  ELSE ws

ResolveInit ==
  /\ \E h \in Hierarchies : base = h.base /\ bases = h.bases
  /\ modules \in [ModuleNames ->
                    {S \in SUBSET VisibleClasses : Cardinality(S) <= MaxMembers}]
  /\ todoModules = ModuleNames
  /\ curModule = "none"
  /\ members = {}
  /\ parent_classes = {}
  /\ child_classes = {}
  /\ rpc = "loop"
  /\ leaves = {}

\* for m in simple_modules: import the next module, in any order.
ImportModule(m) ==
  /\ rpc = "loop"
  /\ members = {}
  /\ m \in todoModules
  /\ todoModules' = todoModules \ {m}
  /\ curModule' = m
  /\ members' = modules[m]
  /\ UNCHANGED <<base, bases, modules, parent_classes, child_classes, rpc, leaves>>
  /\ UNCHANGED <<pvars, dvars, gvars, avars>>

\* for name, cls in inspect.getmembers(module, inspect.isclass): one class.
VisitClass(cls) ==
  /\ rpc = "loop"
  /\ cls \in members
  /\ LET ws == Visit(base, bases, [parents |-> parent_classes,
                                   children |-> child_classes], cls)
     IN /\ parent_classes' = ws.parents
        /\ child_classes' = ws.children
  /\ members' = members \ {cls}
  /\ UNCHANGED <<base, bases, modules, todoModules, curModule, rpc, leaves>>
  /\ UNCHANGED <<pvars, dvars, gvars, avars>>

\* return child_classes
ReturnLeaves ==
  /\ rpc = "loop"
  /\ members = {}
  /\ todoModules = {}
  /\ rpc' = "done"
  /\ leaves' = child_classes
  /\ UNCHANGED <<base, bases, modules, todoModules, curModule, members,
                 parent_classes, child_classes>>
  /\ UNCHANGED <<pvars, dvars, gvars, avars>>

NextResolve ==
  \/ \E m \in ModuleNames : ImportModule(m)
  \/ \E cls \in VisibleClasses : VisitClass(cls)
  \/ ReturnLeaves

InitResolve ==
  ResolveInit /\ ParamsIdle /\ DepsIdle /\ NodesInfoIdle /\ AnalyzeIdle

SpecResolve == InitResolve /\ [][NextResolve]_vars

Min(S) == CHOOSE x \in S : \A y \in S : x <= y

\* The working sets after visiting the classes of S in ascending order.
RECURSIVE VisitAscending(_, _, _, _)
VisitAscending(b, bs, ws, S) ==
  IF S = {} THEN ws
  ELSE VisitAscending(b, bs, Visit(b, bs, ws, Min(S)), S \ {Min(S)})

\* The working sets after visiting the modules in the order of the sequence
\* order, each module's classes in ascending order.
RECURSIVE ResolveInOrder(_, _, _, _, _)
ResolveInOrder(b, bs, mods, ws, order) ==
  IF order = <<>> THEN ws
  ELSE ResolveInOrder(b, bs, mods,
                      VisitAscending(b, bs, ws, mods[Head(order)]), Tail(order))

EmptyWorkingSets == [parents |-> {}, children |-> {}]

\* The node classes the modules expose.
VisitedNodes ==
  {c \in UNION {modules[m] : m \in ModuleNames} :
     IsSubclassOfSimpleNode(bases, c)}

\* C1: whatever the order in which the modules and the classes inside a
\* module are visited (a class exposed by two modules is visited twice), the
\* returned set is the one the reference order returns.
C1_OrderIndependent ==
  rpc = "done" =>
    leaves = ResolveInOrder(base, bases, modules, EmptyWorkingSets,
                            ModuleOrder).children

\* A finished run that took the modules in the reverse of the reference order
\* (m1 was imported last), with a class exposed by both modules and a
\* subclass exposed by one module only, its base by the other.
C1_Witness ==
  /\ rpc = "done"
  /\ curModule = "m1"
  /\ modules["m1"] \cap modules["m2"] \cap VisitedNodes # {}
  /\ \E d \in modules["m2"] \ modules["m1"] :
        /\ base[d] \in modules["m1"] \ modules["m2"]
        /\ base[d] \in VisitedNodes
  /\ leaves # {}

\* Every visited node class has one direct superclass.
SingleInheritance == \A c \in VisitedNodes : Cardinality(bases[c]) = 1

\* C2: when the visited node classes form a single-inheritance hierarchy, the
\* returned set is exactly the visited node classes that are the direct
\* superclass of no visited node class.
C2_LeafCorrectness ==
  rpc = "done" /\ SingleInheritance =>
    leaves = {c \in VisitedNodes : \A d \in VisitedNodes : c \notin bases[d]}

\* Base -> Mid -> {Leaf1, Leaf2} (classes 1, 2, 3, 4), all four visited: the
\* result is {Leaf1, Leaf2}.
C2_Witness ==
  /\ rpc = "done"
  /\ bases[2] = {1} /\ bases[3] = {2} /\ bases[4] = {2}
  /\ VisitedNodes = {1, 2, 3, 4}
  /\ leaves = {3, 4}

\* C10: every class visit leaves parent_classes and child_classes disjoint and
\* parent_classes no smaller, so a class once in parent_classes is in
\* child_classes in no later state.
C10_WorkingSets ==
  [][/\ parent_classes \subseteq parent_classes'
     /\ parent_classes' \cap child_classes' = {}]_vars

\* The second module is being read after the first was finished; a class that
\* the first module exposed together with a subclass of it has just been
\* visited again, and is a parent and not a child.
C10_Witness ==
  /\ rpc = "loop"
  /\ todoModules = {}
  /\ \E m \in ModuleNames \ {curModule} :
       \E c \in (modules[m] \cap modules[curModule]) \ members :
         /\ \E d \in modules[m] : base[d] = c /\ IsSubclassOfSimpleNode(bases, d)
         /\ c \in parent_classes
         /\ c \notin child_classes

(***************************************************************************)
(* Documentation Extractor and Parameter Synthesizer                       *)
(***************************************************************************)

\* The longest documentation block drawn.
MaxDocEntries == 2

\* ", default"
DefaultMarker == <<",", " ", "d", "e", "f", "a", "u", "l", "t">>

\* Lines 180-183: the stored type of a documented type string t.
ExtractType(t) ==
  IF Contains(t, DefaultMarker) THEN Strip(SplitFirst(t, DefaultMarker)) ELSE t

\* extract_params_info: the loop over the numpydoc entries, from entry i on.
RECURSIVE ExtractFrom(_, _, _)
ExtractFrom(entries, i, acc) ==
  IF i > Len(entries) THEN acc
  ELSE LET p == entries[i]
       IN ExtractFrom(entries, i + 1,
            [desc |-> DictSet(acc.desc, p.name, PyStr(Join(<<" ">>, p.desc))),
             type |-> DictSet(acc.type, p.name, PyStr(ExtractType(p.type)))])

extract_params_info(entries) ==
  ExtractFrom(entries, 1, [desc |-> EmptyDict, type |-> EmptyDict])

\* list(...)[1:]: only self is skipped.
DropOne(q) == IF Len(q) <= 1 THEN <<>> ELSE SubSeq(q, 2, Len(q))

\* list(...)[2:]
DropTwo(q) == IF Len(q) <= 2 THEN <<>> ELSE SubSeq(q, 3, Len(q))

\* get_parameters gating on the presence of the key and not on the truth of
\* the description.
ParameterRecordByKey(p, pdesc, ptype) ==
  LET is_mandatory == p.default = SignatureEmpty
  IN PyDict([name          |-> PyStr(p.name),
           type          |-> IF p.name \in DOMAIN pdesc
                             THEN DictGet(ptype, p.name) ELSE None,
           is_mandatory  |-> PyBool(is_mandatory),
           default_value |-> IF ~is_mandatory THEN p.default ELSE None,
           description   |-> DictGet(pdesc, p.name)])

\* Lines 196-209: the record of one constructor parameter.
ParameterRecord(p, pdesc, ptype) ==
  LET is_mandatory == p.default = SignatureEmpty
  IN PyDict([name          |-> PyStr(p.name),
           type          |-> IF Truthy(DictGet(pdesc, p.name))
                             THEN DictGet(ptype, p.name) ELSE None,
           is_mandatory  |-> PyBool(is_mandatory),
           default_value |-> IF ~is_mandatory THEN p.default ELSE None,
           description   |-> IF Truthy(DictGet(pdesc, p.name))
                             THEN DictGet(pdesc, p.name) ELSE None])

\* get_parameters: sig is list(inspect.signature(cls.__init__).parameters.values()).
get_parameters(sig, pdesc, ptype) ==
  LET cls_parameters == DropTwo(sig)
  IN [i \in 1..Len(cls_parameters) |->
        ParameterRecord(cls_parameters[i], pdesc, ptype)]

\* The names of the documented and of the constructor parameters.
ParamNames == {<<"a">>, <<"b">>}

\* The declared type strings of a documentation entry.
TypeStrings ==
  { <<"i", "n", "t">>,
    <<"i", "n", "t">> \o DefaultMarker \o <<" ", "5">>,
    <<"i", "n", "t", " ">> \o DefaultMarker,
    <<"\t", "i", "n", "t", " ">> \o DefaultMarker \o <<" ", "5">>,
    <<>> }

\* The description lines of a documentation entry: none, one empty line, one
\* line of text.
DescLines == { <<>>, << <<>> >>, << <<"x">> >> }

DocEntries == [name : ParamNames, type : TypeStrings, desc : DescLines]

\* The declared defaults: none, None, 5.
Defaults == {SignatureEmpty, None, PyInt(5)}

SeqsUpTo(S, n) == UNION {[1..k -> S] : k \in 0..n}

\* self and the node identifier, which every node constructor takes first.
SelfParam == [name |-> <<"s">>, default |-> SignatureEmpty]
NodeIdParam == [name |-> <<"n">>, default |-> SignatureEmpty]

\* The constructor signatures: __init__(self) alone, or self, the node id and
\* parameters of distinct names of ParamNames.
Signatures ==
  { <<SelfParam>> } \cup
  { <<SelfParam, NodeIdParam>> \o rest :
      rest \in { q \in SeqsUpTo([name : ParamNames, default : Defaults],
                                Cardinality(ParamNames)) :
                   \A i, j \in 1..Len(q) : i # j => q[i].name # q[j].name } }

ParamsInit ==
  /\ signature \in Signatures
  /\ doc_parameters \in SeqsUpTo(DocEntries, MaxDocEntries)
  /\ params_desc = <<>>
  /\ params_type = <<>>
  /\ parameters = <<>>
  /\ ppc = "start"

\* params_desc, params_type = extract_params_info(...Parameters)
ExtractParamsInfo ==
  /\ ppc = "start"
  /\ LET r == extract_params_info(doc_parameters)
     IN /\ params_desc' = r.desc
        /\ params_type' = r.type
  /\ ppc' = "extracted"
  /\ UNCHANGED <<signature, doc_parameters, parameters>>
  /\ UNCHANGED <<rvars, dvars, gvars, avars>>

\* parameters = get_parameters(cls, params_desc, params_type)
GetParameters ==
  /\ ppc = "extracted"
  /\ parameters' = get_parameters(signature, params_desc, params_type)
  /\ ppc' = "done"
  /\ UNCHANGED <<signature, doc_parameters, params_desc, params_type>>
  /\ UNCHANGED <<rvars, dvars, gvars, avars>>

NextParams == ExtractParamsInfo \/ GetParameters

InitParams ==
  ParamsInit /\ ResolveIdle /\ DepsIdle /\ NodesInfoIdle /\ AnalyzeIdle

SpecParams == InitParams /\ [][NextParams]_vars

\* The constructor parameters after the first two.
CtorParams == DropTwo(signature)

\* C6 as stated: type and description are populated exactly when the name is
\* a key of params_desc, whatever the description's text.
C6_GatedByKey ==
  ppc = "done" =>
    \A i \in 1..Len(CtorParams) :
      LET n == CtorParams[i].name
          r == parameters[i].v
      IN /\ r.description = (IF n \in DOMAIN params_desc
                             THEN params_desc[n] ELSE None)
         /\ r.type = (IF n \in DOMAIN params_desc
                      THEN params_type[n] ELSE None)

\* C6, amended: type and description are populated exactly when the name is a
\* key of params_desc whose description is not the empty string; they are then
\* params_type[name] and params_desc[name], and None otherwise.
C6_GatedByDescription ==
  ppc = "done" =>
    \A i \in 1..Len(CtorParams) :
      LET n == CtorParams[i].name
          r == parameters[i].v
          documented == n \in DOMAIN params_desc /\ params_desc[n].v # <<>>
      IN /\ r.description = (IF documented THEN params_desc[n] ELSE None)
         /\ r.type = (IF documented THEN params_type[n] ELSE None)

\* A constructor with a documented parameter (a description and a type cut at
\* ", default"), and one whose entry has a type and an empty description.
C6_Witness ==
  /\ ppc = "done"
  /\ Len(CtorParams) = 2
  /\ \E i, j \in 1..2 :
       /\ parameters[i].v.description = PyStr(<<"x">>)
       /\ parameters[i].v.type = PyStr(<<"i", "n", "t">>)
       /\ \E k \in 1..Len(doc_parameters) :
            /\ doc_parameters[k].name = CtorParams[i].name
            /\ Contains(doc_parameters[k].type, DefaultMarker)
       /\ CtorParams[j].name \in DOMAIN params_desc
       /\ params_type[CtorParams[j].name] = PyStr(<<"i", "n", "t">>)
       /\ parameters[j].v.description = None
       /\ parameters[j].v.type = None

\* C8: one record per constructor parameter after the first two, in
\* declaration order; is_mandatory is true exactly when no default is
\* declared; default_value is the declared default, and None without one.
C8_MandatoryDefault ==
  ppc = "done" =>
    /\ Len(parameters) = (IF Len(signature) > 2 THEN Len(signature) - 2 ELSE 0)
    /\ \A i \in 1..Len(parameters) :
         LET p == signature[i + 2]
             r == parameters[i].v
         IN /\ r.name = PyStr(p.name)
            /\ r.is_mandatory = PyBool(p.default = SignatureEmpty)
            /\ r.default_value =
                 (IF p.default = SignatureEmpty THEN None ELSE p.default)

\* Two parameters after self and the node id: the first without a default, the
\* second with the default 5.
C8_Witness ==
  /\ ppc = "done"
  /\ Len(signature) = 4
  /\ signature[3].default = SignatureEmpty
  /\ signature[4].default = PyInt(5)
  /\ parameters[1].v.is_mandatory = PyBool(TRUE)
  /\ parameters[1].v.default_value = None
  /\ parameters[2].v.is_mandatory = PyBool(FALSE)
  /\ parameters[2].v.default_value = PyInt(5)

(***************************************************************************)
(* Dependency Filter: get_dependencies                                     *)
(***************************************************************************)

\* The longest requirements file drawn.
MaxLines == 2

\* The cased characters up to U+00FF: A to Z, and U+00C0 to U+00DE without the
\* multiplication sign U+00D7; str.lower() gives each the character 32 code
\* points further, and leaves every other character up to U+00FF as it is.
UpperLetters == <<"A", "B", "C", "D", "E", "F", "G", "H", "I", "J", "K", "L", "M",
                  "N", "O", "P", "Q", "R", "S", "T", "U", "V", "W", "X", "Y", "Z",
                  "À", "Á", "Â", "Ã", "Ä", "Å", "Æ", "Ç", "È", "É", "Ê", "Ë", "Ì",
                  "Í", "Î", "Ï", "Ð", "Ñ", "Ò", "Ó", "Ô", "Õ", "Ö", "Ø", "Ù", "Ú",
                  "Û", "Ü", "Ý", "Þ">>
LowerLetters == <<"a", "b", "c", "d", "e", "f", "g", "h", "i", "j", "k", "l", "m",
                  "n", "o", "p", "q", "r", "s", "t", "u", "v", "w", "x", "y", "z",
                  "à", "á", "â", "ã", "ä", "å", "æ", "ç", "è", "é", "ê", "ë", "ì",
                  "í", "î", "ï", "ð", "ñ", "ò", "ó", "ô", "õ", "ö", "ø", "ù", "ú",
                  "û", "ü", "ý", "þ">>

LowerChar(c) ==
  IF \E i \in 1..Len(UpperLetters) : UpperLetters[i] = c
  THEN LowerLetters[CHOOSE i \in 1..Len(UpperLetters) : UpperLetters[i] = c]
  ELSE c

\* s.lower()
Lower(s) == [i \in 1..Len(s) |-> LowerChar(s[i])]

\* The library names left as the tags give them.
KeepLibs(libs) == libs

\* Line 223: libs = [l.lower() for l in libs]
LowerLibs(libs) == {Lower(l) : l \in libs}

\* Line 226: any(lib in line for lib in libs), libs already lower-cased.
LineMatches(line, libs) == \E lib \in libs : Contains(line, lib)

\* Lines 224-227: the loop over the lines, from line i on.
RECURSIVE FilterFrom(_, _, _, _)
FilterFrom(lines, libs, i, acc) ==
  IF i > Len(lines) THEN acc
  ELSE FilterFrom(lines, libs, i + 1,
                  IF LineMatches(lines[i], libs)
                  THEN Append(acc, Strip(lines[i])) ELSE acc)

\* get_dependencies(libs), lines being what f.readlines() returned.
get_dependencies(libs, lines) == FilterFrom(lines, LowerLibs(libs), 1, <<>>)

Sklearn == <<"s", "k", "l", "e", "a", "r", "n">>
SklearnTag == <<"S", "k", "l", "e", "a", "r", "n">>
PandasTag == <<"P", "a", "n", "d", "a", "s">>
EcoTag == <<"É", "c", "o">>

\* The library names of the classification tags.
LibraryNames == {Sklearn, SklearnTag, PandasTag, EcoTag}

ScikitLine == <<"s", "c", "i", "k", "i", "t", "-", "l", "e", "a", "r", "n",
                "=", "=", "1", ".", "0">>
PandasLine == <<"p", "a", "n", "d", "a", "s", "=", "=", "2", ".", "0">>
PandasCapLine == <<"P", "a", "n", "d", "a", "s", "=", "=", "2", ".", "0">>
EcoLine == <<"é", "c", "o", "=", "=", "1">>
SklearnLine == <<" ", "s", "k", "l", "e", "a", "r", "n", "[", "p", "a", "n", "d",
                 "a", "s", "]", " ">>

\* The lines of requirements_dev.txt as readlines() gives them: the line break
\* is part of the line.
ManifestLines ==
  { ScikitLine \o <<"\n">>, PandasLine \o <<"\n">>, PandasLine,
    PandasLine \o <<"\t", " ", "\n">>, EcoLine \o <<"\n">>,
    PandasCapLine \o <<"\n">>, SklearnLine \o <<"\n">>, <<"\n">> }

DepsInit ==
  /\ d_libs \in SUBSET LibraryNames
  /\ d_lines \in SeqsUpTo(ManifestLines, MaxLines)
  /\ dependencies = <<>>
  /\ dpc = "start"

GetDependencies ==
  /\ dpc = "start"
  /\ dependencies' = get_dependencies(d_libs, d_lines)
  /\ dpc' = "done"
  /\ UNCHANGED <<d_libs, d_lines>>
  /\ UNCHANGED <<rvars, pvars, gvars, avars>>

NextDeps == GetDependencies

InitDeps ==
  DepsInit /\ ResolveIdle /\ ParamsIdle /\ NodesInfoIdle /\ AnalyzeIdle

SpecDeps == InitDeps /\ [][NextDeps]_vars

\* Every line of q stripped.
StripAll(q) == [i \in 1..Len(q) |-> Strip(q[i])]

\* A library name occurs in the line, neither compared with regard to case.
MatchesIgnoringCase(line) ==
  \E lib \in d_libs : Contains(Lower(line), Lower(lib))

\* A lower-cased library name occurs in the line as the line is written.
MatchesLowerCasedName(line) ==
  \E lib \in d_libs : Contains(line, Lower(lib))

\* C4 as stated: a line is kept iff a library name occurs in it under
\* case-insensitive comparison of both, in manifest order and once; for
\* {"sklearn"} and ["scikit-learn==1.0", "pandas==2.0"] the result is
\* ["scikit-learn==1.0"].
C4_CaseInsensitive ==
  dpc = "done" =>
    /\ dependencies = StripAll(SelectSeq(d_lines, MatchesIgnoringCase))
    /\ (d_libs = {Sklearn}
          /\ d_lines = <<ScikitLine \o <<"\n">>, PandasLine \o <<"\n">> >>
        => dependencies = <<ScikitLine>>)

\* C4, amended: a line is kept iff a library name, lower-cased, occurs in the
\* line as written (the line's case is not folded); the kept lines are
\* stripped, in manifest order, each once per occurrence in the manifest; for
\* {"sklearn"} and ["scikit-learn==1.0", "pandas==2.0"] the result is empty,
\* for {"Pandas"} and the line "pandas==2.0" followed by a tab, a no-break
\* space and the line break it is ["pandas==2.0"], and for {"Éco"} and the
\* line "éco==1" it is ["éco==1"].
C4_LowerCasedNames ==
  dpc = "done" =>
    /\ dependencies = StripAll(SelectSeq(d_lines, MatchesLowerCasedName))
    /\ (d_libs = {Sklearn}
          /\ d_lines = <<ScikitLine \o <<"\n">>, PandasLine \o <<"\n">> >>
        => dependencies = <<>>)
    /\ (d_libs = {PandasTag}
          /\ d_lines = <<PandasLine \o <<"\t", " ", "\n">> >>
        => dependencies = <<PandasLine>>)
    /\ (d_libs = {EcoTag} /\ d_lines = <<EcoLine \o <<"\n">> >>
        => dependencies = <<EcoLine>>)

\* The tags Sklearn and Pandas against a line naming both in lower case and a
\* line naming Pandas capitalised: the first is kept once, stripped, the
\* second is not kept.
C4_Witness ==
  /\ dpc = "done"
  /\ d_libs = {SklearnTag, PandasTag}
  /\ d_lines = <<SklearnLine \o <<"\n">>, PandasCapLine \o <<"\n">> >>
  /\ dependencies = <<Strip(SklearnLine)>>

(***************************************************************************)
(* Node Metadata Assembler: get_io_structure and get_simple_nodes_info     *)
(***************************************************************************)

\* hasattr(cls, ...) is false: the class has no such attribute, its own or
\* inherited.
Absent == [kind |-> "absent"]
\* A type handle, as the values of _input_vars and _output_vars may be.
TypeObj(name) == [kind |-> "type", v |-> name]
\* The keys of cls._methods, in the dict's order.
MethodsDict(names) == [kind |-> "methods", v |-> names]
\* What cls._get_tags() returns.
Tags(library, type) == [kind |-> "tags", library |-> library, type |-> type]
\* A SimpleNodeInfo object with the attributes of fields.
SimpleNodeInfo(fields) == [kind |-> "SimpleNodeInfo", v |-> fields]

\* get_io_structure: a str passes through, a type handle gives its __name__.
get_io_structure(io_dict) ==
  PyDict([k \in DOMAIN io_dict.v |->
            IF io_dict.v[k].kind = "str" THEN io_dict.v[k]
            ELSE PyStr(io_dict.v[k].v)])

\* list(cls._methods.keys())
MethodNames(m) == PyList([i \in 1..Len(m.v) |-> PyStr(m.v[i])])

\* cls.__module__ + "." + cls.__name__
QualifiedPath(cls) == cls.module \o <<".">> \o cls.name

\* The facets read with an empty default in place of the hasattr test, as
\* getattr(cls, "_input_vars", {}) would.
NodeInfoEmptyDefaults(cls) ==
  LET info == extract_params_info(cls.doc)
  IN SimpleNodeInfo(
       [clazz       |-> PyStr(cls.name),
        package     |-> PyStr(QualifiedPath(cls)),
        input       |-> IF cls.input_vars # Absent
                        THEN get_io_structure(cls.input_vars)
                        ELSE PyDict(EmptyDict),
        output      |-> IF cls.output_vars # Absent
                        THEN get_io_structure(cls.output_vars)
                        ELSE PyDict(EmptyDict),
        parameter   |-> PyList(get_parameters(cls.init, info.desc, info.type)),
        methods     |-> IF cls.methods # Absent
                        THEN MethodNames(cls.methods) ELSE PyList(<<>>),
        tags        |-> PyDict([library |-> PyStr(cls.tags.library),
                                type    |-> PyStr(cls.tags.type)]),
        description |-> PyStr(Join(<<" ">>, cls.summary))])

\* Lines 139-166: the SimpleNodeInfo of a class that has tags.
NodeInfo(cls) ==
  LET info == extract_params_info(cls.doc)
  IN SimpleNodeInfo(
       [clazz       |-> PyStr(cls.name),
        package     |-> PyStr(QualifiedPath(cls)),
        input       |-> IF cls.input_vars # Absent
                        THEN get_io_structure(cls.input_vars) ELSE None,
        output      |-> IF cls.output_vars # Absent
                        THEN get_io_structure(cls.output_vars) ELSE None,
        parameter   |-> PyList(get_parameters(cls.init, info.desc, info.type)),
        methods     |-> IF cls.methods # Absent
                        THEN MethodNames(cls.methods) ELSE None,
        tags        |-> PyDict([library |-> PyStr(cls.tags.library),
                                type    |-> PyStr(cls.tags.type)]),
        description |-> PyStr(Join(<<" ">>, cls.summary))])

\* The orders in which a set can be iterated.
Orders(S) ==
  { q \in [1..Cardinality(S) -> S] :
      \A i, j \in 1..Cardinality(S) : i # j => q[i] # q[j] }

\* get_simple_nodes_info, the set being iterated in the order of the sequence
\* order. cls._get_tags() raises for a class without tags, and the call ends
\* there.
get_simple_nodes_info(order) ==
  IF \E i \in 1..Len(order) : order[i].tags = Absent
  THEN [raised |-> TRUE, nodes |-> <<>>]
  ELSE [raised |-> FALSE, nodes |-> [i \in 1..Len(order) |-> NodeInfo(order[i])]]

\* The largest set of leaf classes drawn.
MaxLeaves == 2

DatasetType == <<"D">>
NodeType == <<"T">>

InputFacets ==
  { Absent, PyDict(EmptyDict), PyDict([dataset |-> PyStr(DatasetType)]),
    PyDict([dataset |-> TypeObj(DatasetType)]) }
OutputFacets ==
  { Absent, PyDict(EmptyDict), PyDict([dataset |-> TypeObj(DatasetType)]) }
MethodFacets == { Absent, MethodsDict(<<>>), MethodsDict(<< <<"f">> >>) }
TagFacets == { Absent, Tags(PandasTag, NodeType) }

\* The documentation block of the classes: a summary of two lines and one
\* documented parameter.
ClassSummary == << <<"S">>, <<"x">> >>
ClassDoc ==
  << [name |-> <<"a">>,
      type |-> <<"i", "n", "t">> \o DefaultMarker \o <<" ", "5">>,
      desc |-> << <<"x">> >>] >>

\* __init__(self, node_id, a=default, b)
ClassInit(default) ==
  << SelfParam, NodeIdParam, [name |-> <<"a">>, default |-> default],
     [name |-> <<"b">>, default |-> SignatureEmpty] >>

\* The class of module and name id, with the attributes attr.
ClassOf(id, attr) ==
  [ name |-> id.name, module |-> id.module,
    input_vars |-> attr.input_vars, output_vars |-> attr.output_vars,
    methods |-> attr.methods, tags |-> attr.tags,
    init |-> ClassInit(attr.default), summary |-> ClassSummary,
    doc |-> ClassDoc ]

\* The sets of at most n classes, each of another module and name of Ids and
\* with attributes of Attrs.
ClassSets(Ids, Attrs, n) ==
  UNION { { {ClassOf(id, f[id]) : id \in I} : f \in [I -> Attrs] } :
          I \in {J \in SUBSET Ids : Cardinality(J) <= n} }

\* The classes get_simple_nodes_info is run on: every combination of the four
\* facets.
NodeClassIds == [module : {<<"a">>}, name : {<<"B">>, <<"b">>}]
NodeClassAttrs ==
  [ input_vars : InputFacets, output_vars : OutputFacets,
    methods : MethodFacets, tags : TagFacets, default : {PyInt(5)} ]

NodesInfoInit ==
  /\ node_subclasses \in ClassSets(NodeClassIds, NodeClassAttrs, MaxLeaves)
  /\ simple_nodes = <<>>
  /\ gpc = "start"

\* get_simple_nodes_info(node_subclasses)
GetSimpleNodesInfo ==
  /\ gpc = "start"
  /\ \E order \in Orders(node_subclasses) :
       LET r == get_simple_nodes_info(order)
       IN /\ simple_nodes' = r.nodes
          /\ gpc' = IF r.raised THEN "raised" ELSE "done"
  /\ UNCHANGED node_subclasses
  /\ UNCHANGED <<rvars, pvars, dvars, avars>>

NextNodesInfo == GetSimpleNodesInfo

InitNodesInfo ==
  NodesInfoInit /\ ResolveIdle /\ ParamsIdle /\ DepsIdle /\ AnalyzeIdle

SpecNodesInfo == InitNodesInfo /\ [][NextNodesInfo]_vars

\* The record of class cls among the returned ones.
RecordOf(cls) ==
  CHOOSE r \in {simple_nodes[i].v : i \in 1..Len(simple_nodes)} :
    r.package = PyStr(QualifiedPath(cls))

HasRecord(cls) ==
  \E i \in 1..Len(simple_nodes) :
    simple_nodes[i].v.package = PyStr(QualifiedPath(cls))

\* The three facets read under hasattr: None when the class has no such
\* attribute, and the (possibly empty) value when it has.
NullableFacets(cls) ==
  LET r == RecordOf(cls)
  IN /\ (cls.input_vars = Absent <=> r.input = None)
     /\ (cls.input_vars = PyDict(EmptyDict) => r.input = PyDict(EmptyDict))
     /\ (cls.output_vars = Absent <=> r.output = None)
     /\ (cls.output_vars = PyDict(EmptyDict) => r.output = PyDict(EmptyDict))
     /\ (cls.methods = Absent <=> r.methods = None)
     /\ (cls.methods = MethodsDict(<<>>) => r.methods = PyList(<<>>))

\* C7 as stated: whichever of the four facets a class lacks, the call returns
\* and the class has a record, with each missing facet None and each empty
\* facet the empty value.
C7_FourOptionalFacets ==
  gpc # "start" =>
    /\ gpc = "done"
    /\ \A cls \in node_subclasses :
         /\ HasRecord(cls)
         /\ NullableFacets(cls)
         /\ (cls.tags = Absent <=> RecordOf(cls).tags = None)

\* C7, amended: the input structure, the output structure and the method
\* names are optional (None when missing, the empty value when empty); the
\* classification tags are not: the call raises, and yields no record, exactly
\* when some class has no tags, and a record's tags are never None.
C7_ThreeOptionalFacets ==
  gpc # "start" =>
    /\ (gpc = "raised" <=> \E cls \in node_subclasses : cls.tags = Absent)
    /\ (gpc = "raised" => simple_nodes = <<>>)
    /\ gpc = "done" =>
         \A cls \in node_subclasses :
           /\ HasRecord(cls)
           /\ NullableFacets(cls)
           /\ RecordOf(cls).tags # None

\* A class with no inputs, no outputs and no methods beside one with empty
\* inputs, outputs and methods: the first has three None facets, the second
\* three empty ones.
C7_Witness ==
  /\ gpc = "done"
  /\ \E c, d \in node_subclasses :
       /\ c.input_vars = Absent /\ c.output_vars = Absent /\ c.methods = Absent
       /\ RecordOf(c).input = None /\ RecordOf(c).output = None
       /\ RecordOf(c).methods = None
       /\ d.input_vars = PyDict(EmptyDict) /\ d.output_vars = PyDict(EmptyDict)
       /\ d.methods = MethodsDict(<<>>)
       /\ RecordOf(d).input = PyDict(EmptyDict)
       /\ RecordOf(d).output = PyDict(EmptyDict)
       /\ RecordOf(d).methods = PyList(<<>>)

(***************************************************************************)
(* Catalog Builder: analyze and get_analyzed_nodes                         *)
(***************************************************************************)

\* ord(c), for the characters of the package paths.
CharCode(c) ==
  CASE c = "." -> 46
    [] c = "B" -> 66
    [] c = "a" -> 97
    [] c = "b" -> 98

\* a < b for two str: the first differing character decides, a proper prefix
\* is smaller.
RECURSIVE StrLess(_, _)
StrLess(a, b) ==
  IF b = <<>> THEN FALSE
  ELSE IF a = <<>> THEN TRUE
  ELSE IF CharCode(Head(a)) < CharCode(Head(b)) THEN TRUE
  ELSE IF CharCode(Head(a)) > CharCode(Head(b)) THEN FALSE
  ELSE StrLess(Tail(a), Tail(b))

\* x put into the sorted list q after the elements whose key is not greater.
RECURSIVE InsertByKey(_, _, _)
InsertByKey(q, x, key) ==
  IF q = <<>> THEN <<x>>
  ELSE IF StrLess(x.v[key].v, Head(q).v[key].v) THEN <<x>> \o q
  ELSE <<Head(q)>> \o InsertByKey(Tail(q), x, key)

\* sorted(q, key=lambda d: d[key]): a stable sort.
RECURSIVE SortedFrom(_, _, _, _)
SortedFrom(q, i, acc, key) ==
  IF i > Len(q) THEN acc
  ELSE SortedFrom(q, i + 1, InsertByKey(acc, q[i], key), key)

\* The node dicts sorted by class name.
SortNodesByClazz(q) == SortedFrom(q, 1, <<>>, "clazz")

\* Line 245: sorted(simple_nodes_info, key=lambda d: d['package'])
SortNodes(q) == SortedFrom(q, 1, <<>>, "package")

\* Line 244: [node.__dict__ for node in simple_nodes_info]
NodeDicts(q) == [i \in 1..Len(q) |-> PyDict(q[i].v)]

\* The JSON encoder accepts the value.
RECURSIVE Serializable(_)
Serializable(x) ==
  CASE x.kind \in {"None", "str", "int", "bool"} -> TRUE
    [] x.kind \in {"list", "tuple"} ->
         \A i \in 1..Len(x.v) : Serializable(x.v[i])
    [] x.kind = "dict" -> \A k \in DOMAIN x.v : Serializable(x.v[k])
    [] OTHER -> FALSE

\* The JSON text of a value, as its syntax tree: a tuple is written as an
\* array, like a list.
RECURSIVE ToJson(_)
ToJson(x) ==
  CASE x.kind = "None" -> [j |-> "null"]
    [] x.kind = "str" -> [j |-> "string", v |-> x.v]
    [] x.kind = "int" -> [j |-> "number", v |-> x.v]
    [] x.kind = "bool" -> [j |-> "bool", v |-> x.v]
    [] x.kind \in {"list", "tuple"} ->
         [j |-> "array", v |-> [i \in 1..Len(x.v) |-> ToJson(x.v[i])]]
    [] x.kind = "dict" ->
         [j |-> "object", v |-> [k \in DOMAIN x.v |-> ToJson(x.v[k])]]

\* The value json.load builds of a JSON text: an array is read as a list.
RECURSIVE FromJson(_)
FromJson(t) ==
  CASE t.j = "null" -> None
    [] t.j = "string" -> PyStr(t.v)
    [] t.j = "number" -> PyInt(t.v)
    [] t.j = "bool" -> PyBool(t.v)
    [] t.j = "array" -> PyList([i \in 1..Len(t.v) |-> FromJson(t.v[i])])
    [] t.j = "object" -> PyDict([k \in DOMAIN t.v |-> FromJson(t.v[k])])

\* The catalog file: whether it exists, the node objects and the dependency
\* strings written to it so far, and whether the document was written to its
\* end.
NoFile ==
  [exists |-> FALSE, complete |-> FALSE, nodes |-> <<>>, dependencies |-> <<>>]

\* What open(..., "w") leaves: an empty file.
TruncatedFile ==
  [exists |-> TRUE, complete |-> FALSE, nodes |-> <<>>, dependencies |-> <<>>]

\* get_libraries: the library names of the classes' tags.
get_libraries(classes) == {cls.tags.library : cls \in classes}

\* json.load(f) of a complete catalog file.
json_load(f) ==
  FromJson([j |-> "object",
            v |-> [nodes        |-> [j |-> "array", v |-> f.nodes],
                   dependencies |-> [j |-> "array", v |-> f.dependencies]]])

\* A default that the JSON encoder rejects: a class object.
UnserializableDefault == TypeObj(DatasetType)

\* The leaf classes analyze is run on.
LeafClassIds == [module : {<<"a">>, <<"a", ".", "b">>}, name : {<<"B">>, <<"b">>}]
LeafClassAttrs ==
  [ input_vars : {Absent},
    output_vars : {PyDict([dataset |-> TypeObj(DatasetType)])},
    methods : {MethodsDict(<<>>)}, tags : TagFacets,
    default : {PyInt(5), PyTuple(<<PyInt(1)>>), UnserializableDefault} ]

\* requirements_dev.txt
AnalyzeManifest == <<ScikitLine \o <<"\n">>, PandasLine \o <<"\n">> >>

\* The catalog of an earlier run.
OldCatalog ==
  [exists |-> TRUE, complete |-> TRUE,
   nodes |-> << ToJson(PyDict(NodeInfo(
                  ClassOf([module |-> <<"a">>, name |-> <<"B">>],
                          [input_vars |-> Absent, output_vars |-> Absent,
                           methods |-> Absent,
                           tags |-> Tags(PandasTag, NodeType),
                           default |-> None])).v)) >>,
   dependencies |-> <<>>]

AnalyzeInit ==
  /\ a_leaves \in ClassSets(LeafClassIds, LeafClassAttrs, MaxLeaves)
  /\ import_ok \in BOOLEAN
  /\ manifest_ok \in BOOLEAN
  /\ open_ok \in BOOLEAN
  /\ old_file \in {NoFile, OldCatalog}
  /\ file = old_file
  /\ a_deps = <<>>
  /\ a_order = <<>>
  /\ a_nodes = <<>>
  /\ returned = <<>>
  /\ apc = "start"
  /\ loaded = None
  /\ lpc = "none"
  /\ read_after = "none"

\* Lines 236-238: the modules are imported and the leaf classes resolved; a
\* module that fails to import ends the run.
ResolveLeaves ==
  /\ apc = "start"
  /\ apc' = IF import_ok THEN "resolved" ELSE "failed"
  /\ UNCHANGED <<a_leaves, import_ok, manifest_ok, open_ok, old_file, file,
                 a_deps, a_order, a_nodes, returned, lvars>>
  /\ UNCHANGED <<rvars, pvars, dvars, gvars>>

\* Lines 240-241: get_libraries raises for a class without tags, and
\* get_dependencies when requirements_dev.txt cannot be read.
CollectDependencies ==
  /\ apc = "resolved"
  /\ IF (\E cls \in a_leaves : cls.tags = Absent) \/ ~manifest_ok
     THEN /\ apc' = "failed"
          /\ UNCHANGED a_deps
     ELSE /\ a_deps' = get_dependencies(get_libraries(a_leaves), AnalyzeManifest)
          /\ apc' = "deps"
  /\ UNCHANGED <<a_leaves, import_ok, manifest_ok, open_ok, old_file, file,
                 a_order, a_nodes, returned, lvars>>
  /\ UNCHANGED <<rvars, pvars, dvars, gvars>>

\* Lines 243-245: the node infos, in the order the set of leaves is iterated,
\* made dicts and sorted.
BuildNodes ==
  /\ apc = "deps"
  /\ \E order \in Orders(a_leaves) :
       LET r == get_simple_nodes_info(order)
       IN /\ a_order' = order
          /\ IF r.raised
             THEN /\ apc' = "failed"
                  /\ UNCHANGED a_nodes
             ELSE /\ a_nodes' = SortNodes(NodeDicts(r.nodes))
                  /\ apc' = "sorted"
  /\ UNCHANGED <<a_leaves, import_ok, manifest_ok, open_ok, old_file, file,
                 a_deps, returned, lvars>>
  /\ UNCHANGED <<rvars, pvars, dvars, gvars>>

\* Line 249: open("./analyzer_output/rain_structure.json", "w") empties the
\* file, or raises (the directory analyzer_output is missing, the file may not
\* be written) and leaves what there was.
OpenFile ==
  /\ apc = "sorted"
  /\ IF open_ok
     THEN /\ file' = TruncatedFile
          /\ apc' = "dumping"
     ELSE /\ apc' = "failed"
          /\ UNCHANGED file
  /\ UNCHANGED <<a_leaves, import_ok, manifest_ok, open_ok, old_file, a_deps,
                 a_order, a_nodes, returned, lvars>>
  /\ UNCHANGED <<rvars, pvars, dvars, gvars>>

\* Line 250: json.dump writes the document piece by piece; the next node is
\* written, or the encoder raises at a value it cannot encode and the file
\* is closed with what was written before.
DumpNode ==
  /\ apc = "dumping"
  /\ Len(file.nodes) < Len(a_nodes)
  /\ LET node == a_nodes[Len(file.nodes) + 1]
     IN IF Serializable(node)
        THEN /\ file' = [file EXCEPT !.nodes = Append(@, ToJson(node))]
             /\ UNCHANGED apc
        ELSE /\ apc' = "failed"
             /\ UNCHANGED file
  /\ UNCHANGED <<a_leaves, import_ok, manifest_ok, open_ok, old_file, a_deps,
                 a_order, a_nodes, returned, lvars>>
  /\ UNCHANGED <<rvars, pvars, dvars, gvars>>

\* Lines 250-252: the dependencies and the end of the document are written,
\* the file is closed and the sorted list returned.
FinishDump ==
  /\ apc = "dumping"
  /\ Len(file.nodes) = Len(a_nodes)
  /\ file' = [file EXCEPT
                !.dependencies = [i \in 1..Len(a_deps) |-> ToJson(PyStr(a_deps[i]))],
                !.complete = TRUE]
  /\ returned' = a_nodes
  /\ apc' = "done"
  /\ UNCHANGED <<a_leaves, import_ok, manifest_ok, open_ok, old_file, a_deps,
                 a_order, a_nodes, lvars>>
  /\ UNCHANGED <<rvars, pvars, dvars, gvars>>

\* get_analyzed_nodes(), called before analyze, after a run that failed or
\* after a run that completed: open(..., "r") raises when there is no file,
\* json.load raises on a document that was not written to its end, and returns
\* the document otherwise.
GetAnalyzedNodes ==
  /\ apc \in {"start", "failed", "done"}
  /\ read_after' = apc
  /\ IF ~file.exists
     THEN /\ lpc' = "FileNotFoundError"
          /\ loaded' = None
     ELSE IF ~file.complete
     THEN /\ lpc' = "JSONDecodeError"
          /\ loaded' = None
     ELSE /\ lpc' = "returned"
          /\ loaded' = json_load(file)
  /\ UNCHANGED <<a_leaves, import_ok, manifest_ok, open_ok, old_file, file,
                 a_deps, a_order, a_nodes, returned, apc>>
  /\ UNCHANGED <<rvars, pvars, dvars, gvars>>

NextAnalyze ==
  \/ ResolveLeaves
  \/ CollectDependencies
  \/ BuildNodes
  \/ OpenFile
  \/ DumpNode
  \/ FinishDump
  \/ GetAnalyzedNodes

InitAnalyze ==
  AnalyzeInit /\ ResolveIdle /\ ParamsIdle /\ DepsIdle /\ NodesInfoIdle

SpecAnalyze == InitAnalyze /\ [][NextAnalyze]_vars

\* C3: a run that failed left the catalog file as it was before the run.
C3_FailedRunWritesNothing == apc = "failed" => file = old_file

\* C5: called after analyze has persisted a catalog, get_analyzed_nodes
\* returns the nodes array, equal to the sorted node list analyze built and
\* returned.
C5_RoundTrip ==
  read_after = "done" => lpc = "returned" /\ loaded = PyList(returned)

\* C9: the list analyze returns and the nodes array it persists are sorted
\* ascending by package and hold one record per leaf class.
C9_SortedByPackage ==
  apc = "done" =>
    /\ Len(returned) = Cardinality(a_leaves)
    /\ {returned[i].v.package.v : i \in 1..Len(returned)}
         = {QualifiedPath(cls) : cls \in a_leaves}
    /\ \A i, k \in 1..Len(returned) :
         i < k => ~StrLess(returned[k].v.package.v, returned[i].v.package.v)
    /\ file.complete
    /\ Len(file.nodes) = Cardinality(a_leaves)
    /\ {file.nodes[i].v.package.v : i \in 1..Len(file.nodes)}
         = {QualifiedPath(cls) : cls \in a_leaves}
    /\ \A i, k \in 1..Len(file.nodes) :
         i < k => ~StrLess(file.nodes[k].v.package.v, file.nodes[i].v.package.v)

\* Two leaves iterated in descending order of their paths, "a.b.B" before
\* "a.b", and persisted in ascending order.
C9_Witness ==
  /\ apc = "done"
  /\ Len(a_order) = 2
  /\ QualifiedPath(a_order[1]) = <<"a", ".", "b", ".", "B">>
  /\ QualifiedPath(a_order[2]) = <<"a", ".", "b">>
  /\ file.nodes[1].v.package.v = <<"a", ".", "b">>
  /\ file.nodes[2].v.package.v = <<"a", ".", "b", ".", "B">>

====
